---- MODULE Spec2Model ----
(***************************************************************************)
(* Model of pkg/logging/gcs/update.go: the "logging gcs update" command.   *)
(* One run of UpdateCommand.Exec is a read-modify-write against the remote *)
(* API: resolve the service ID, GetGCS, merge the optional flags over the  *)
(* fetched object, UpdateGCS, print a confirmation.                        *)
(*                                                                         *)
(* The API client is an external library.  Each of its two calls is split  *)
(* into the step that issues it and the step in which it returns, so that  *)
(* what is in flight at any moment is part of the state.                   *)
(***************************************************************************)
EXTENDS Naturals, Sequences, FiniteSets, TLC

VARIABLES c, remote, pc, calls, replies, input, out, ret

vars == <<c, remote, pc, calls, replies, input, out, ret>>

(***************************************************************************)
(* Bounds of the model.                                                    *)
(***************************************************************************)
\* At most this many of the 13 optional flags are given on one command line.
MaxGiven == 2
\* A stored object has every optional field empty, or at most this many.
MaxZeroStored == 0

(***************************************************************************)
(* The optional fields of UpdateCommand, by type.                          *)
(***************************************************************************)
UintFlags == {"Period", "FormatVersion", "GzipLevel"}

StringFlags == {"NewName", "Bucket", "User", "SecretKey", "Path", "Format",
                "ResponseCondition", "TimestampFormat", "MessageType", "Placement"}

OptionalFlags == StringFlags \cup UintFlags

\* The 12 optional fields that fastly.GCS and fastly.UpdateGCSInput share.
SharedFields == OptionalFlags \ {"NewName"}

\* Go's zero value of the field's type.
Zero(f) == IF f \in UintFlags THEN 0 ELSE ""

\* A non-zero value a user may pass for the flag; distinct for every flag.
GivenValue(f) ==
    CASE f = "Period" -> 60
      [] f = "FormatVersion" -> 1
      [] f = "GzipLevel" -> 5
      [] OTHER -> "new-" \o f

\* A non-zero value the remote object may hold in the field; distinct for
\* every field and from every given value.
StoredValue(f) ==
    CASE f = "Period" -> 3600
      [] f = "FormatVersion" -> 2
      [] f = "GzipLevel" -> 9
      [] OTHER -> "old-" \o f

(***************************************************************************)
(* Values of error type.  nil is the absence of an error.                  *)
(***************************************************************************)
nil == "nil"

ErrNoServiceID == "ErrNoServiceID"

\* Errors the API client may return (network failure, 4xx/5xx response).
APIErrors == {"ErrNetwork", "ErrHTTP404"}

\* Exec has not returned yet.
Running == "running"

(***************************************************************************)
(* manifest.Data.ServiceID: the --service-id flag wins over the manifest   *)
(* file; with neither, the source is undefined.                            *)
(***************************************************************************)
SourceUndefined == "SourceUndefined"

ServiceID(m) ==
    IF m.Flag.ServiceID # "" THEN [id |-> m.Flag.ServiceID, source |-> "SourceFlag"]
    ELSE IF m.File.ServiceID # "" THEN [id |-> m.File.ServiceID, source |-> "SourceFile"]
    ELSE [id |-> "", source |-> SourceUndefined]

(***************************************************************************)
(* Command lines: what NewUpdateCommand's flags leave in UpdateCommand.    *)
(* --version and --name are Required(): they must be given, and --name may *)
(* be given as the empty string.  An optional flag that is given runs its  *)
(* Action (Set: Valid = true) and stores its Value; one that is not given  *)
(* leaves the wrapper at its zero value.                                   *)
(***************************************************************************)
FlagServiceIDs == {"", "sid-flag"}

FileServiceIDs == {"", "sid-file"}

EndpointNames == {"", "log"}

Versions == {1}

Optional(valid, value) == [Valid |-> valid, Value |-> value]

\* The wrappers when exactly the flags in given are on the command line and
\* those in zeros of them carry the zero value.
Wrappers(given, zeros) ==
    [f \in OptionalFlags |->
        IF f \notin given THEN Optional(FALSE, Zero(f))
        ELSE IF f \in zeros THEN Optional(TRUE, Zero(f))
        ELSE Optional(TRUE, GivenValue(f))]

NewUpdateCommand(flagID, fileID, name, version, given, zeros) ==
    [manifest |-> [Flag |-> [ServiceID |-> flagID], File |-> [ServiceID |-> fileID]],
     EndpointName |-> name,
     Version |-> version] @@ Wrappers(given, zeros)

(***************************************************************************)
(* The remote resource: the fastly.GCS object the API stores.  Its         *)
(* identifying fields are never empty; each optional field holds a         *)
(* non-zero value or, for the fields in zeros, the zero value.             *)
(***************************************************************************)
StoredServiceID == "sid-flag"

StoredName == "log"

StoredVersion == 1

GCS(serviceID, version, name, zeros) ==
    [ServiceID |-> serviceID, Version |-> version, Name |-> name] @@
    [f \in SharedFields |-> IF f \in zeros THEN Zero(f) ELSE StoredValue(f)]

\* Which optional fields of a stored object are empty: all of them (an
\* endpoint created with nothing but its name), or a few.
StoredZeros ==
    {SharedFields} \cup {z \in SUBSET SharedFields : Cardinality(z) <= MaxZeroStored}

(***************************************************************************)
(* UpdateCommand.createInput, lines 84-101: the UpdateGCSInput initialised *)
(* from the fetched object.                                                *)
(***************************************************************************)
UpdateGCSInput(gcs) ==
    [Service           |-> gcs.ServiceID,
     Version           |-> gcs.Version,
     Name              |-> gcs.Name,
     NewName           |-> gcs.Name,
     Bucket            |-> gcs.Bucket,
     User              |-> gcs.User,
     SecretKey         |-> gcs.SecretKey,
     Path              |-> gcs.Path,
     Period            |-> gcs.Period,
     FormatVersion     |-> gcs.FormatVersion,
     GzipLevel         |-> gcs.GzipLevel,
     Format            |-> gcs.Format,
     MessageType       |-> gcs.MessageType,
     ResponseCondition |-> gcs.ResponseCondition,
     TimestampFormat   |-> gcs.TimestampFormat,
     Placement         |-> gcs.Placement]

(***************************************************************************)
(* UpdateCommand.createInput, lines 103-154: "Set new values if set by     *)
(* user", one if per optional flag, in the order of the source.            *)
(***************************************************************************)
SetNewValues(cmd, i0) ==
    LET i1  == IF cmd.NewName.Valid THEN [i0 EXCEPT !.NewName = cmd.NewName.Value] ELSE i0
        i2  == IF cmd.Bucket.Valid THEN [i1 EXCEPT !.Bucket = cmd.Bucket.Value] ELSE i1
        i3  == IF cmd.User.Valid THEN [i2 EXCEPT !.User = cmd.User.Value] ELSE i2
        i4  == IF cmd.SecretKey.Valid THEN [i3 EXCEPT !.SecretKey = cmd.SecretKey.Value] ELSE i3
        i5  == IF cmd.Path.Valid THEN [i4 EXCEPT !.Path = cmd.Path.Value] ELSE i4
        i6  == IF cmd.Period.Valid THEN [i5 EXCEPT !.Period = cmd.Period.Value] ELSE i5
        i7  == IF cmd.FormatVersion.Valid
               THEN [i6 EXCEPT !.FormatVersion = cmd.FormatVersion.Value] ELSE i6
        i8  == IF cmd.GzipLevel.Valid THEN [i7 EXCEPT !.GzipLevel = cmd.GzipLevel.Value] ELSE i7
        i9  == IF cmd.Format.Valid THEN [i8 EXCEPT !.Format = cmd.Format.Value] ELSE i8
        i10 == IF cmd.ResponseCondition.Valid
               THEN [i9 EXCEPT !.ResponseCondition = cmd.ResponseCondition.Value] ELSE i9
        i11 == IF cmd.TimestampFormat.Valid
               THEN [i10 EXCEPT !.TimestampFormat = cmd.TimestampFormat.Value] ELSE i10
        i12 == IF cmd.MessageType.Valid
               THEN [i11 EXCEPT !.MessageType = cmd.MessageType.Value] ELSE i11
        i13 == IF cmd.Placement.Valid THEN [i12 EXCEPT !.Placement = cmd.Placement.Value] ELSE i12
    IN  i13

\* Variant: MessageType initialised from the neighbouring ResponseCondition.
createInputMessageTypeSlip(cmd, gcs) ==
    SetNewValues(cmd, [UpdateGCSInput(gcs) EXCEPT !.MessageType = gcs.ResponseCondition])

\* Variant: a flag overrides only when its Value is non-zero, Valid ignored.
createInputNonZeroOnly(cmd, gcs) ==
    [f \in DOMAIN UpdateGCSInput(gcs) |->
        IF f \in OptionalFlags /\ cmd[f].Value # Zero(f)
        THEN cmd[f].Value ELSE UpdateGCSInput(gcs)[f]]

\* Variant: Service taken from the resolved service ID, not from the object.
createInputResolvedService(cmd, gcs) ==
    SetNewValues(cmd, [UpdateGCSInput(gcs) EXCEPT !.Service = ServiceID(cmd.manifest).id])

(***************************************************************************)
(* UpdateCommand.createInput, lines 84-156, given the object GetGCS        *)
(* returned.                                                               *)
(***************************************************************************)
createInput(cmd, gcs) == SetNewValues(cmd, UpdateGCSInput(gcs))

(***************************************************************************)
(* The requests the command hands to the API client.                       *)
(***************************************************************************)
GetGCSInput(cmd) ==
    [Service |-> ServiceID(cmd.manifest).id, Name |-> cmd.EndpointName, Version |-> cmd.Version]

GetGCSCall(cmd) == [op |-> "GetGCS", input |-> GetGCSInput(cmd)]

UpdateGCSCall(i) == [op |-> "UpdateGCS", input |-> i]

\* What the client returned: an error, or nil and the object.
Reply(op, err, obj) == [op |-> op, err |-> err, obj |-> obj]

\* The object the API stores and returns after applying an UpdateGCSInput.
Updated(i) ==
    [ServiceID |-> i.Service, Version |-> i.Version, Name |-> i.NewName] @@
    [f \in SharedFields |-> i[f]]

(***************************************************************************)
(* text.Success: the format's verbs replaced by the arguments in order,    *)
(* the message a sequence of words.  %d renders an integer in decimal.     *)
(***************************************************************************)
Itoa(n) ==
    CASE n = 0 -> "0" [] n = 1 -> "1" [] n = 2 -> "2" [] n = 3 -> "3" [] OTHER -> "many"

RECURSIVE Sprintf(_, _)
Sprintf(format, args) ==
    IF format = <<>> THEN <<>>
    ELSE IF Head(format) = "%s"
         THEN <<Head(args)>> \o Sprintf(Tail(format), Tail(args))
    ELSE IF Head(format) = "%d"
         THEN <<Itoa(Head(args))>> \o Sprintf(Tail(format), Tail(args))
    ELSE <<Head(format)>> \o Sprintf(Tail(format), args)

Success(format, args) == [kind |-> "SUCCESS", text |-> Sprintf(format, args)]

UpdatedFormat ==
    <<"Updated", "GCS", "logging", "endpoint", "%s", "(service", "%s", "version", "%d", ")">>

(***************************************************************************)
(* Init: a parsed command line, a stored remote object, Exec not started.  *)
(***************************************************************************)
Init ==
    /\ \E flagID \in FlagServiceIDs, fileID \in FileServiceIDs,
          name \in EndpointNames, version \in Versions,
          given \in {g \in SUBSET OptionalFlags : Cardinality(g) <= MaxGiven} :
          \E zeros \in SUBSET given :
             c = NewUpdateCommand(flagID, fileID, name, version, given, zeros)
    /\ \E zeros \in StoredZeros :
          remote = GCS(StoredServiceID, StoredVersion, StoredName, zeros)
    /\ pc = "start"
    /\ calls = <<>>
    /\ replies = <<>>
    /\ input = <<>>
    /\ out = <<>>
    /\ ret = Running

\* Variant: the missing service ID is not checked; GetGCS is issued anyway.
ExecNoServiceIDUnchecked ==
    /\ pc = "start"
    /\ ServiceID(c.manifest).source = SourceUndefined
    /\ calls' = Append(calls, [op |-> "GetGCS",
                               input |-> [Service |-> "", Name |-> c.EndpointName,
                                          Version |-> c.Version]])
    /\ pc' = "GetGCS"
    /\ UNCHANGED <<c, remote, replies, input, out, ret>>

(***************************************************************************)
(* Exec -> createInput, lines 70-73: no service ID, fail without a call.   *)
(***************************************************************************)
ExecNoServiceID ==
    /\ pc = "start"
    /\ ServiceID(c.manifest).source = SourceUndefined
    /\ ret' = ErrNoServiceID
    /\ pc' = "done"
    /\ UNCHANGED <<c, remote, calls, replies, input, out>>

\* Variant: no read before the write; the input is built from the flags
\* alone and UpdateGCS is issued at once.
ExecCallUpdateGCSFirst ==
    /\ pc = "start"
    /\ ServiceID(c.manifest).source # SourceUndefined
    /\ LET blank == [ServiceID |-> ServiceID(c.manifest).id, Version |-> c.Version,
                     Name |-> c.EndpointName] @@ [f \in SharedFields |-> Zero(f)]
       IN  /\ input' = <<SetNewValues(c, UpdateGCSInput(blank))>>
           /\ calls' = Append(calls, [op |-> "UpdateGCS",
                                      input |-> SetNewValues(c, UpdateGCSInput(blank))])
    /\ pc' = "UpdateGCS"
    /\ UNCHANGED <<c, remote, replies, out, ret>>

(***************************************************************************)
(* Exec -> createInput, lines 70-79: the service ID is resolved, GetGCS is *)
(* issued.                                                                 *)
(***************************************************************************)
ExecCallGetGCS ==
    /\ pc = "start"
    /\ ServiceID(c.manifest).source # SourceUndefined
    /\ calls' = Append(calls, GetGCSCall(c))
    /\ pc' = "GetGCS"
    /\ UNCHANGED <<c, remote, replies, input, out, ret>>

\* Variant: the client's error is replaced by one of the command's own.
GetGCSFailsWrapped ==
    /\ pc = "GetGCS"
    /\ \E err \in APIErrors :
          /\ replies' = Append(replies, [op |-> "GetGCS", err |-> err, obj |-> <<>>])
          /\ ret' = "ErrGetGCSFailed"
    /\ pc' = "done"
    /\ UNCHANGED <<c, remote, calls, input, out>>

(***************************************************************************)
(* Lines 80-82 and 162-164: GetGCS returned an error; createInput and Exec *)
(* return it.                                                              *)
(***************************************************************************)
GetGCSFails ==
    /\ pc = "GetGCS"
    /\ \E err \in APIErrors :
          /\ replies' = Append(replies, Reply("GetGCS", err, <<>>))
          /\ ret' = err
    /\ pc' = "done"
    /\ UNCHANGED <<c, remote, calls, input, out>>

(***************************************************************************)
(* Lines 84-156 and 166: GetGCS returned the stored object; the input is   *)
(* merged and UpdateGCS is issued with it.                                 *)
(***************************************************************************)
GetGCSSucceeds ==
    /\ pc = "GetGCS"
    /\ replies' = Append(replies, Reply("GetGCS", nil, <<remote>>))
    /\ input' = <<createInput(c, remote)>>
    /\ calls' = Append(calls, UpdateGCSCall(createInput(c, remote)))
    /\ pc' = "UpdateGCS"
    /\ UNCHANGED <<c, remote, out, ret>>

\* Variant: a failed UpdateGCS is issued once more before giving up.
UpdateGCSFailsRetried ==
    /\ pc = "UpdateGCS"
    /\ \E err \in APIErrors :
          /\ replies' = Append(replies, [op |-> "UpdateGCS", err |-> err, obj |-> <<>>])
          /\ IF Len(calls) < 3
             THEN /\ calls' = Append(calls, [op |-> "UpdateGCS", input |-> input[1]])
                  /\ pc' = "UpdateGCS"
                  /\ ret' = ret
             ELSE /\ calls' = calls
                  /\ pc' = "done"
                  /\ ret' = err
    /\ UNCHANGED <<c, remote, input, out>>

\* Variant: the error of UpdateGCS is dropped and Exec returns nil.
UpdateGCSFailsSwallowed ==
    /\ pc = "UpdateGCS"
    /\ \E err \in APIErrors :
          replies' = Append(replies, [op |-> "UpdateGCS", err |-> err, obj |-> <<>>])
    /\ ret' = nil
    /\ pc' = "done"
    /\ UNCHANGED <<c, remote, calls, input, out>>

(***************************************************************************)
(* Lines 167-169: UpdateGCS returned an error; Exec returns it.  A failed  *)
(* update leaves the stored object as it was.                              *)
(***************************************************************************)
UpdateGCSFails ==
    /\ pc = "UpdateGCS"
    /\ \E err \in APIErrors :
          /\ replies' = Append(replies, Reply("UpdateGCS", err, <<>>))
          /\ ret' = err
    /\ pc' = "done"
    /\ UNCHANGED <<c, remote, calls, input, out>>

\* Variant: the confirmation is formatted from the request, not from the
\* object UpdateGCS returned.
UpdateGCSSucceedsPrintsInput ==
    /\ pc = "UpdateGCS"
    /\ LET gcs == [ServiceID |-> input[1].Service, Version |-> input[1].Version,
                   Name |-> input[1].NewName] @@ [f \in SharedFields |-> input[1][f]]
       IN  /\ remote' = gcs
           /\ replies' = Append(replies, [op |-> "UpdateGCS", err |-> nil, obj |-> <<gcs>>])
           /\ out' = Append(out, [kind |-> "SUCCESS",
                                  text |-> <<"Updated", "GCS", "logging", "endpoint",
                                             input[1].Name, "(service", input[1].Service,
                                             "version", Itoa(input[1].Version), ")">>])
    /\ ret' = nil
    /\ pc' = "done"
    /\ UNCHANGED <<c, calls, input>>

(***************************************************************************)
(* Lines 166-172: UpdateGCS stored the input and returned the updated      *)
(* object; Exec writes the confirmation and returns nil.                   *)
(***************************************************************************)
UpdateGCSSucceeds ==
    /\ pc = "UpdateGCS"
    /\ LET gcs == Updated(input[1])
       IN  /\ remote' = gcs
           /\ replies' = Append(replies, Reply("UpdateGCS", nil, <<gcs>>))
           /\ out' = Append(out, Success(UpdatedFormat, <<gcs.Name, gcs.ServiceID, gcs.Version>>))
    /\ ret' = nil
    /\ pc' = "done"
    /\ UNCHANGED <<c, calls, input>>

Next ==
    \/ ExecNoServiceID
    \/ ExecCallGetGCS
    \/ GetGCSFails
    \/ GetGCSSucceeds
    \/ UpdateGCSFails
    \/ UpdateGCSSucceeds

Spec == Init /\ [][Next]_vars

(***************************************************************************)
(* What the properties speak about.                                        *)
(***************************************************************************)
\* The service ID was resolved from the flag or the manifest.
Resolved == ServiceID(c.manifest).source # SourceUndefined

\* createInput has returned an input, merged from the object GetGCS returned.
Merged == input # <<>>

\* The object GetGCS returned (when Merged).
fetched == replies[1].obj[1]

\* The field of the fetched object a flag is merged over.
FetchedField(f) == IF f = "NewName" THEN fetched.Name ELSE fetched[f]

\* The indexes of the calls of one client method.
CallsOf(op) == {i \in DOMAIN calls : calls[i].op = op}

\* The word occurs in the message.
Contains(msg, word) == \E i \in DOMAIN msg.text : msg.text[i] = word

\* Exec has returned an error.
Failed == ret \notin {Running, nil}

(***************************************************************************)
(* C1: once GetGCS has succeeded, each of the 12 optional fields of the    *)
(* UpdateGCSInput is the flag's value if the flag's wrapper is Valid and   *)
(* the fetched object's value of the same field otherwise, whatever the    *)
(* other flags are.                                                        *)
(***************************************************************************)
C1_MergeRule ==
    Merged =>
        \A f \in SharedFields :
            input[1][f] = IF c[f].Valid THEN c[f].Value ELSE fetched[f]

\* Two flags given, a third field not given and non-empty on the remote.
C1_Witness ==
    /\ Merged
    /\ \E f, g, h \in SharedFields :
          /\ f # g
          /\ c[f].Valid /\ c[g].Valid /\ ~c[h].Valid
          /\ fetched[h] # Zero(h)
          /\ input[1][f] = c[f].Value
          /\ input[1][h] = fetched[h]

(***************************************************************************)
(* C2: with no service ID resolved, no API call is ever issued, nothing is *)
(* written to the output, and Exec returns ErrNoServiceID.                 *)
(***************************************************************************)
C2_NoServiceIDNoCall ==
    ~Resolved =>
        /\ calls = <<>>
        /\ replies = <<>>
        /\ out = <<>>
        /\ ret \in {Running, ErrNoServiceID}
        /\ pc = "done" => ret = ErrNoServiceID

C2_Witness == ~Resolved /\ pc = "done" /\ ret = ErrNoServiceID

(***************************************************************************)
(* C3 as stated: a finished run has issued exactly one API call.           *)
(***************************************************************************)
C3_ExactlyOneCall == pc = "done" => Len(calls) = 1

(***************************************************************************)
(* C3 amended: a run issues no API call when no service ID is resolved,    *)
(* one (GetGCS) when GetGCS fails, and two (GetGCS, then UpdateGCS) when   *)
(* GetGCS succeeds; never more than two.                                   *)
(***************************************************************************)
C3_CallCount ==
    /\ Len(calls) <= 2
    /\ pc = "done" =>
          Len(calls) = IF ~Resolved THEN 0
                       ELSE IF replies[1].err # nil THEN 1
                       ELSE 2

C3_Witness ==
    /\ pc = "done"
    /\ Len(calls) = 2
    /\ calls[1].op = "GetGCS"
    /\ calls[2].op = "UpdateGCS"

(***************************************************************************)
(* C4: when UpdateGCS succeeds Exec returns nil and has written exactly    *)
(* one success message, which contains the name, the service ID and the    *)
(* version of the object UpdateGCS returned; when Exec returns an error    *)
(* nothing is written.                                                     *)
(***************************************************************************)
C4_SuccessMessage ==
    /\ \A i \in DOMAIN replies :
          (replies[i].op = "UpdateGCS" /\ replies[i].err = nil) =>
              /\ ret = nil
              /\ Len(out) = 1
              /\ out[1].kind = "SUCCESS"
              /\ Contains(out[1], replies[i].obj[1].Name)
              /\ Contains(out[1], replies[i].obj[1].ServiceID)
              /\ Contains(out[1], Itoa(replies[i].obj[1].Version))
    /\ Failed => out = <<>>
    /\ out # <<>> => ret = nil

\* A successful rename: the message names the endpoint by its new name.
C4_Witness ==
    /\ pc = "done"
    /\ ret = nil
    /\ Len(out) = 1
    /\ c.NewName.Valid
    /\ c.NewName.Value # fetched.Name
    /\ Contains(out[1], c.NewName.Value)

(***************************************************************************)
(* C5: GetGCS and UpdateGCS are each called at most once; when a call      *)
(* returns an error it is the last call of the run, and Exec has returned  *)
(* that very error.                                                        *)
(***************************************************************************)
C5_NoRetry ==
    /\ Cardinality(CallsOf("GetGCS")) <= 1
    /\ Cardinality(CallsOf("UpdateGCS")) <= 1
    /\ \A i \in DOMAIN replies :
          replies[i].err # nil =>
              /\ pc = "done"
              /\ ret = replies[i].err
              /\ i = Len(replies)
              /\ Len(calls) = i

C5_Witness ==
    /\ pc = "done"
    /\ Len(replies) = 1
    /\ replies[1].err \in APIErrors
    /\ ret = replies[1].err

(***************************************************************************)
(* C6: Exec returns nil exactly when the service ID was resolved and both  *)
(* GetGCS and UpdateGCS returned without error; otherwise it returns an    *)
(* error.                                                                  *)
(***************************************************************************)
C6_SuccessIff ==
    /\ pc = "done" <=> ret # Running
    /\ pc = "done" =>
          (ret = nil <=>
              /\ Resolved
              /\ Len(replies) = 2
              /\ replies[1].op = "GetGCS" /\ replies[1].err = nil
              /\ replies[2].op = "UpdateGCS" /\ replies[2].err = nil)

C6_Witness ==
    /\ pc = "done"
    /\ Resolved
    /\ Len(replies) = 2
    /\ replies[2].err \in APIErrors
    /\ ret # nil

(***************************************************************************)
(* C7 as stated: every API call issued carries a non-empty service ID and  *)
(* a non-empty endpoint name.                                              *)
(***************************************************************************)
C7_RequiredNonEmpty ==
    \A i \in DOMAIN calls :
        /\ calls[i].input.Service # ""
        /\ calls[i].input.Name # ""

(***************************************************************************)
(* C8: for every optional flag, given with the zero value the merged field *)
(* is that zero value even if the fetched object holds a non-zero value;   *)
(* not given (Value zero, Valid false) the field keeps the fetched value.  *)
(***************************************************************************)
C8_ZeroValueGiven ==
    Merged =>
        \A f \in OptionalFlags :
            c[f].Value = Zero(f) =>
                /\ c[f].Valid => input[1][f] = Zero(f)
                /\ ~c[f].Valid => input[1][f] = FetchedField(f)

\* One flag given as zero over a non-zero remote value, another not given.
C8_Witness ==
    /\ Merged
    /\ \E f, g \in OptionalFlags :
          /\ c[f].Valid /\ c[f].Value = Zero(f)
          /\ FetchedField(f) # Zero(f)
          /\ input[1][f] = Zero(f)
          /\ ~c[g].Valid /\ c[g].Value = Zero(g)
          /\ FetchedField(g) # Zero(g)
          /\ input[1][g] = FetchedField(g)

(***************************************************************************)
(* C9: UpdateGCS is issued only as the second call, after GetGCS has       *)
(* returned without error; once GetGCS has failed no UpdateGCS is issued   *)
(* and no step changes the remote object.                                  *)
(***************************************************************************)
GetGCSFailed == Len(replies) >= 1 /\ replies[1].op = "GetGCS" /\ replies[1].err # nil

C9_ReadThenWrite ==
    /\ [](\A i \in DOMAIN calls :
             calls[i].op = "UpdateGCS" =>
                 /\ i = 2
                 /\ calls[1].op = "GetGCS"
                 /\ Len(replies) >= 1
                 /\ replies[1].op = "GetGCS"
                 /\ replies[1].err = nil)
    /\ [](GetGCSFailed => CallsOf("UpdateGCS") = {})
    /\ [][GetGCSFailed' => remote' = remote]_vars
    /\ [][remote' # remote => (pc = "UpdateGCS" /\ replies[1].err = nil)]_vars

C9_Witness ==
    /\ pc = "done"
    /\ Len(calls) = 2
    /\ calls[2].op = "UpdateGCS"
    /\ replies[1].err = nil
    /\ remote # fetched

(***************************************************************************)
(* C10: Service, Version and Name of the UpdateGCSInput are those of the   *)
(* fetched object whatever flags are given; NewName is --new-name's value  *)
(* if given and the fetched Name otherwise, so that a successful update    *)
(* without --new-name leaves the endpoint's name as it was.                *)
(***************************************************************************)
C10_IdentityKept ==
    Merged =>
        /\ input[1].Service = fetched.ServiceID
        /\ input[1].Version = fetched.Version
        /\ input[1].Name = fetched.Name
        /\ input[1].NewName = IF c.NewName.Valid THEN c.NewName.Value ELSE fetched.Name
        /\ (pc = "done" /\ ret = nil /\ ~c.NewName.Valid) => remote.Name = fetched.Name

\* --new-name given together with another flag, resolved from the manifest.
C10_Witness ==
    /\ Merged
    /\ c.NewName.Valid
    /\ \E f \in SharedFields : c[f].Valid
    /\ input[1].NewName = c.NewName.Value
    /\ input[1].Name = fetched.Name
    /\ input[1].Name # input[1].NewName
    /\ ServiceID(c.manifest).id # fetched.ServiceID

====
